---- MODULE Spec2Model ----
(***************************************************************************)
(* A model of pyex.py, the install pipeline that turns a script into an    *)
(* executable command (stage, inspect, chmod, shebang, strip suffix,       *)
(* commit, clean up), and of its pure helpers.                             *)
(*                                                                         *)
(* File names are sequences of atoms: "." is the dot, every other atom is  *)
(* a dot-free piece of a name.  File texts are sequences of characters:    *)
(* NL is the newline, PY and SH stand for the texts "#!/bin/python3" and   *)
(* "#!/bin/bash", "x" is any other character.  A mode is the set of the    *)
(* permission bits that are set.                                           *)
(***************************************************************************)
EXTENDS Integers, Sequences, FiniteSets, TLC

VARIABLES
    fs,              \* the file system: path -> [text, mode], for existing files
    fs0,             \* the file system when the process started
    rwDirs,          \* the directories that exist and accept writes
    filepath,        \* args.filepath, a path <<dir, name>>
    custom_name,     \* args.customname, a name; <<>> when absent (None and "" are both falsy)
    all,             \* args.all
    pc,              \* the position of the process in main / run_operations
    exitCode,        \* the exit code of the process, NoExit while it runs
    temp_file_path,  \* run_operations' temp_file_path
    file_status,     \* run_operations' file_status
    file_text,       \* run_operations' file_text
    new_lines,       \* run_operations' new_lines; <<>> stands for None (both falsy)
    final_file_path, \* run_operations' final_file_path
    trail,           \* the steps run_operations has taken so far, in order, each
                     \* under its own name when it returned and with the ending
                     \* _failed or _raised when it did not
    u,               \* the state of a unit run of one pure helper
    tasks,           \* tsk.py: TaskManager.tasks
    data_file        \* tsk.py: the pickle file at data_path

vars == <<fs, fs0, rwDirs, filepath, custom_name, all, pc, exitCode,
          temp_file_path, file_status, file_text, new_lines,
          final_file_path, trail, u, tasks, data_file>>

pipeVars == <<fs, fs0, rwDirs, filepath, custom_name, all, pc, exitCode,
              temp_file_path, file_status, file_text, new_lines,
              final_file_path, trail>>

tskVars == <<tasks, data_file>>

-----------------------------------------------------------------------------
(* Bounds *)

\* the longest text, in characters, given to add_shebang in a unit run
MaxLen == 3

\* the most body lines a source file of the pipeline has after its first line
MaxBody == 1

-----------------------------------------------------------------------------
(* Values *)

\* the exit code of a process that is still running
NoExit == 0 - 1
NL == "\n"
PY == "#!/bin/python3"
SH == "#!/bin/bash"
Chars == {PY, SH, "x", NL}

DOT == "."
DotPy == <<DOT, "py">>
DotSh == <<DOT, "sh">>

\* SCRIPTS_DIR, and the directory the user works in (the current directory)
SCRIPTS_DIR == "bin"
WorkDir == "work"
Dirs == {WorkDir, SCRIPTS_DIR}

\* SHEBANGS: suffix -> directive line (a line is a sequence of characters)
SHEBANGS == (DotPy :> <<PY>>) @@ (DotSh :> <<SH>>)

SHEBANGS_keys == DOMAIN SHEBANGS

SHEBANGS_values == {SHEBANGS[k] : k \in DOMAIN SHEBANGS}

Bits == {"ur", "uw", "ux", "gx"}
XBits == {"ux", "gx"}
S_IEXEC == "ux"

-----------------------------------------------------------------------------
(* str.split("\n") and "\n".join *)

RECURSIVE SplitFrom(_, _, _)
\* the lines of text[i..], cur being the characters of the line being read
SplitFrom(text, i, cur) ==
    IF i > Len(text) THEN <<cur>>
    ELSE IF text[i] = NL THEN <<cur>> \o SplitFrom(text, i + 1, <<>>)
    ELSE SplitFrom(text, i + 1, Append(cur, text[i]))

Split(text) == SplitFrom(text, 1, <<>>)

RECURSIVE Join(_)
Join(lines) ==
    IF Len(lines) = 0 THEN <<>>
    ELSE IF Len(lines) = 1 THEN lines[1]
    ELSE lines[1] \o <<NL>> \o Join(Tail(lines))

-----------------------------------------------------------------------------
(* pathlib and os.path on names *)

RECURSIVE RFindDot(_, _)
\* str.rfind("."), 1-based; 0 when the name has no dot at or before i
RFindDot(name, i) ==
    IF i = 0 THEN 0
    ELSE IF name[i] = DOT THEN i
    ELSE RFindDot(name, i - 1)

\* PurePath.suffix: from the last dot on, unless that dot starts or ends the name
Suffix(name) ==
    LET i == RFindDot(name, Len(name))
    IN  IF i > 1 /\ i < Len(name) THEN SubSeq(name, i, Len(name)) ELSE <<>>

\* PurePath.with_suffix("")
WithoutSuffix(name) == SubSeq(name, 1, Len(name) - Len(Suffix(name)))

RECURSIVE LStripDots(_)
\* str.lstrip(".")
LStripDots(name) ==
    IF Len(name) > 0 /\ name[1] = DOT THEN LStripDots(Tail(name)) ELSE name

Dir(path) == path[1]
Name(path) == path[2]

-----------------------------------------------------------------------------
(* Files, permissions and the shutil / os calls *)

\* the user running the pipeline owns every file of the model and is not root
Caller == "owner"
Callers == {"owner", "group", "root"}

\* a read by `who` is permitted
CanRead(f, who) == who = "root" \/ (who = "owner" /\ "ur" \in f.mode)

\* a write by `who` is permitted
CanWrite(f, who) == who = "root" \/ (who = "owner" /\ "uw" \in f.mode)

\* os.access(path, os.X_OK) for a regular file
AccessX(f, who) ==
    CASE who = "root"  -> f.mode \cap XBits # {}
      [] who = "owner" -> "ux" \in f.mode
      [] OTHER         -> "gx" \in f.mode

\* os.chmod is permitted to the owner and to root
ChmodAllowed(who) == who \in {"owner", "root"}

\* a chmod that sets the execute bit alone: os.chmod(path, stat.S_IEXEC)
Mut_ExecMode(mode) == {S_IEXEC}

\* the mode make_executable asks os.chmod for
ExecMode(mode) == mode \cup {S_IEXEC}

\* make_executable: the file system after the call, its return value, and
\* whether it raised FileNotFoundError
make_executable(fsys, p, who) ==
    IF p \notin DOMAIN fsys
    THEN [fs |-> fsys, ret |-> 1, raised |-> TRUE]
    ELSE IF AccessX(fsys[p], who)
    THEN [fs |-> fsys, ret |-> 1, raised |-> FALSE]
    ELSE IF ~ChmodAllowed(who)
    THEN [fs |-> fsys, ret |-> 1, raised |-> FALSE]
    ELSE [fs |-> [fsys EXCEPT ![p].mode = ExecMode(@)], ret |-> 0, raised |-> FALSE]

\* shutil.copy(src, dst) raises: no source, unreadable source, the same file,
\* a directory that is missing or read-only, or an unwritable file at dst
CopyRaises(fsys, src, dst) ==
    \/ src \notin DOMAIN fsys
    \/ ~CanRead(fsys[src], Caller)
    \/ src = dst
    \/ Dir(dst) \notin rwDirs
    \/ (dst \in DOMAIN fsys /\ ~CanWrite(fsys[dst], Caller))

\* shutil.copy(src, dst) when it succeeds: content and permission bits
ShutilCopy(fsys, src, dst) ==
    [p \in DOMAIN fsys \cup {dst} |-> IF p = dst THEN fsys[src] ELSE fsys[p]]

\* Path.rename(target): the target is replaced when it exists
Rename(fsys, src, dst) ==
    IF src = dst THEN fsys
    ELSE [p \in (DOMAIN fsys \ {src}) \cup {dst} |->
             IF p = dst THEN fsys[src] ELSE fsys[p]]

\* a clean-up that was forgotten
Mut_Remove(fsys, p) == fsys

\* os.remove(path)
Remove(fsys, p) == [q \in DOMAIN fsys \ {p} |-> fsys[q]]

\* a write_text that leaves the file as it was
Mut_WriteText(fsys, p, text) == fsys

\* Path.write_text(text): the mode of an existing file is kept
WriteText(fsys, p, text) == [fsys EXCEPT ![p].text = text]

-----------------------------------------------------------------------------
(* The helpers of pyex.py *)

\* get_file_status (get_file_text's suffix check compares the path's suffix
\* with itself and never raises)
HasShebang(text) == Split(text)[1] \in SHEBANGS_values

get_file_status(fsys, p) ==
    [suffix  |-> Suffix(Name(p)),
     shebang |-> HasShebang(fsys[p].text),
     exec    |-> AccessX(fsys[p], Caller)]

\* an add_shebang that does not look at the first line
Mut_add_shebang(text, suffix) == <<SHEBANGS[suffix], <<>>>> \o Split(text)

\* add_shebang, for a suffix that passes its assertion
add_shebang(text, suffix) ==
    LET lines == Split(text)
        shebang_line == SHEBANGS[suffix]
    IN  IF lines[1] = shebang_line THEN lines
        ELSE <<shebang_line, <<>>>> \o lines

\* a remove_suffix that keeps the suffix
Mut_StrippedName(name) == name

\* the name remove_suffix renames the file to
StrippedName(name) == IF Suffix(name) = <<>> THEN name ELSE WithoutSuffix(name)

\* make_temp_file's temp_file_name
TempName(name) == <<DOT>> \o name

\* what make_temp_file returns when the copy failed, and the value
\* run_operations compares its result with
COPY_FAILED == 1
TEMP_ERROR == 0

\* new_file_name: temp_file_path.name.lstrip(".")
NewFileName(tempName) == LStripDots(tempName)

\* build_final_path on SCRIPTS_DIR / new_file_name
build_final_path(path, custom) ==
    IF custom = <<>> THEN path ELSE <<Dir(path), custom>>

\* a main that does not check the suffix
Mut_SuffixSupported(name) == TRUE

\* main's check of the suffix
SuffixSupported(name) == Suffix(name) \in SHEBANGS_keys

-----------------------------------------------------------------------------
(* The inputs of a pipeline run *)

\* args.filepath's file name: a.py, a.sh, a.txt, a, a.sh.py, .a.py
SrcNames ==
    { <<"a", DOT, "py">>, <<"a", DOT, "sh">>, <<"a", DOT, "txt">>, <<"a">>,
      <<"a", DOT, "sh", DOT, "py">>, <<DOT, "a", DOT, "py">> }

\* args.customname: absent, b, a.py, .a.py
CustomNames ==
    { <<>>, <<"b">>, <<"a", DOT, "py">>, <<DOT, "a", DOT, "py">> }

\* the first line of a source file: no text before the body, a directive,
\* or a directive followed by more characters
HeadLines == { <<>>, <<PY>>, <<SH>>, <<PY, "x">> }

RECURSIVE BodyLines(_)
BodyLines(n) == IF n = 0 THEN <<>> ELSE <<NL, "x">> \o BodyLines(n - 1)

SrcTexts == { h \o BodyLines(n) : h \in HeadLines, n \in 0..MaxBody }

\* the permission bits of the source file
SrcModes ==
    { {"ur", "uw"}, {"ur", "uw", "ux"}, {"ur", "uw", "gx"}, {"ur", "ux"}, {"uw"} }

\* a file that was there before the run
Junk == [text |-> <<"x">>, mode |-> {"ur", "uw"}]

\* str(1), the path run_operations computes from make_temp_file's error code,
\* is relative: it names the file "1" of the current directory
StrOfInt(n) == IF n = 1 THEN <<"1">> ELSE <<"0">>

Cwd == WorkDir

\* the texts of the file named 1 of the current directory, when there is one
OneTexts == { <<"x">>, <<PY>> }

\* temp_file_path as a value: a Path, or the int make_temp_file returned
PathValue(p) == [isPath |-> TRUE, path |-> p, code |-> 0]
IntValue(n) == [isPath |-> FALSE, path |-> <<Cwd, StrOfInt(n)>>, code |-> n]

\* str(temp_file_path)
Str(v) == v.path

\* temp_file_path == 0
EqualsInt(v, n) == ~v.isPath /\ v.code = n

NoStatus == [suffix |-> <<>>, shebang |-> FALSE, exec |-> FALSE]
NoPath == PathValue(<<Cwd, <<>>>>)
NoUnit == [kind |-> "none"]

\* the paths a run on src with the custom name c may touch besides src
TouchedPaths(src, c) ==
    LET t == TempName(Name(src))
        s == StrippedName(t)
    IN  { <<Dir(src), t>>, <<Dir(src), s>>,
          build_final_path(<<SCRIPTS_DIR, NewFileName(s)>>, c) } \ {src}

\* the file system before the run: the source file (unless it is missing),
\* maybe the file "1" of the current directory, maybe files at the paths
\* the run is going to use
InitFs(src, present, text, mode, one, prior, c) ==
    LET P == (IF present THEN {src} ELSE {})
             \cup (IF one = <<>> THEN {} ELSE {<<Cwd, StrOfInt(1)>>})
             \cup (IF prior THEN TouchedPaths(src, c) ELSE {})
    IN  [p \in P |->
            IF p = src THEN [text |-> text, mode |-> mode]
            ELSE IF p = <<Cwd, StrOfInt(1)>> THEN [text |-> one, mode |-> {"ur", "uw"}]
            ELSE Junk]

\* tsk.py is not running: no TaskManager, no data file
NoDataFile == [exists |-> FALSE, tasks |-> <<>>]

NoTasks == tasks = <<>> /\ data_file = NoDataFile

Init ==
    /\ NoTasks
    /\ \E d \in Dirs, n \in SrcNames, present \in BOOLEAN, text \in SrcTexts,
          mode \in SrcModes, one \in OneTexts \cup {<<>>}, prior \in BOOLEAN,
          c \in CustomNames :
          /\ filepath = <<d, n>>
          /\ custom_name = c
          \* a missing input file has no content to choose
          /\ ~present => (text = <<>> /\ mode = {"ur", "uw"} /\ ~prior /\ one = <<>>)
          /\ fs = InitFs(<<d, n>>, present, text, mode, one, prior, c)
    /\ fs0 = fs
    /\ rwDirs \in (SUBSET Dirs) \ {{}}
    /\ all \in BOOLEAN
    /\ pc = "main"
    /\ exitCode = NoExit
    /\ temp_file_path = NoPath
    /\ file_status = NoStatus
    /\ file_text = <<>>
    /\ new_lines = <<>>
    /\ final_file_path = <<Cwd, <<>>>>
    /\ trail = <<>>
    /\ u = NoUnit

-----------------------------------------------------------------------------
(* main and run_operations, one action per step *)

\* sys.exit(code), or an uncaught exception (the interpreter exits with 1)
Exit(code) == pc' = "exited" /\ exitCode' = code

Uncaught == Exit(1)

\* main: the checks of the arguments, then run_operations under --all
Main ==
    /\ pc = "main"
    /\ IF filepath \notin DOMAIN fs THEN Exit(1)
       ELSE IF ~SuffixSupported(Name(filepath)) THEN Exit(1)
       ELSE IF all THEN pc' = "make_temp_file" /\ exitCode' = exitCode
       ELSE Exit(0)
    /\ UNCHANGED <<fs, fs0, rwDirs, filepath, custom_name, all, temp_file_path,
                   file_status, file_text, new_lines, final_file_path, trail, u, tasks, data_file>>

\* make_temp_file's result and the file system after it
make_temp_file(fsys, path) ==
    LET temp == <<Dir(path), TempName(Name(path))>>
    IN  IF CopyRaises(fsys, path, temp)
        THEN [fs |-> fsys, ret |-> IntValue(COPY_FAILED)]
        ELSE [fs |-> ShutilCopy(fsys, path, temp), ret |-> PathValue(temp)]

\* run_operations, lines 141-144
MakeTempFile ==
    /\ pc = "make_temp_file"
    /\ LET r == make_temp_file(fs, filepath)
       IN  /\ fs' = r.fs
           /\ temp_file_path' = r.ret
           /\ IF EqualsInt(r.ret, TEMP_ERROR) THEN Exit(1)
              ELSE pc' = "get_file_status" /\ exitCode' = exitCode
    /\ trail' = Append(trail, IF temp_file_path'.isPath THEN "stage" ELSE "stage_failed")
    /\ UNCHANGED <<fs0, rwDirs, filepath, custom_name, all, file_status,
                   file_text, new_lines, final_file_path, u, tasks, data_file>>

\* run_operations, lines 145-146: read_text raises when the file is missing
\* or unreadable
GetFileStatus ==
    /\ pc = "get_file_status"
    /\ LET p == Str(temp_file_path)
       IN  IF p \notin DOMAIN fs \/ ~CanRead(fs[p], Caller)
           THEN Uncaught /\ UNCHANGED <<file_status, file_text>>
           ELSE /\ file_status' = get_file_status(fs, p)
                /\ file_text' = fs[p].text
                /\ pc' = "make_executable" /\ exitCode' = exitCode
    /\ trail' = Append(trail, IF pc' = "exited" THEN "inspect_raised" ELSE "inspect")
    /\ UNCHANGED <<fs, fs0, rwDirs, filepath, custom_name, all, temp_file_path,
                   new_lines, final_file_path, u, tasks, data_file>>

\* run_operations, lines 148-152
MakeExecutable ==
    /\ pc = "make_executable"
    /\ IF file_status.exec = FALSE
       THEN /\ fs' = make_executable(fs, Str(temp_file_path), Caller).fs
            /\ trail' = Append(trail, "chmod")
       ELSE UNCHANGED <<fs, trail>>
    /\ pc' = "add_shebang"
    /\ UNCHANGED <<fs0, rwDirs, filepath, custom_name, all, exitCode,
                   temp_file_path, file_status, file_text, new_lines,
                   final_file_path, u, tasks, data_file>>

\* run_operations, lines 154-164: the AssertionError of add_shebang is caught
\* and ends the process with sys.exit(0)
AddShebang ==
    /\ pc = "add_shebang"
    /\ IF file_status.shebang = FALSE
       THEN IF file_status.suffix \notin SHEBANGS_keys
            THEN /\ Exit(0)
                 /\ trail' = Append(trail, "shebang_raised")
                 /\ UNCHANGED new_lines
            ELSE /\ new_lines' = add_shebang(file_text, file_status.suffix)
                 /\ trail' = Append(trail, "shebang")
                 /\ pc' = "branch" /\ exitCode' = exitCode
       ELSE /\ pc' = "branch"
            /\ UNCHANGED <<new_lines, exitCode, trail>>
    /\ UNCHANGED <<fs, fs0, rwDirs, filepath, custom_name, all, temp_file_path,
                   file_status, file_text, final_file_path, u, tasks, data_file>>

\* run_operations, lines 168-170: remove_suffix renames the staged copy
RemoveSuffix ==
    /\ pc = "branch"
    /\ file_status.suffix \in SHEBANGS_keys
    /\ LET p == Str(temp_file_path)
           q == <<Dir(p), StrippedName(Name(p))>>
       IN  /\ fs' = Rename(fs, p, q)
           /\ temp_file_path' = PathValue(q)
    /\ pc' = "copy"
    /\ trail' = Append(trail, "rename")
    /\ UNCHANGED <<fs0, rwDirs, filepath, custom_name, all, exitCode,
                   file_status, file_text, new_lines, final_file_path, u, tasks, data_file>>

\* run_operations, lines 182-183: nothing follows, main returns
Unsupported ==
    /\ pc = "branch"
    /\ file_status.suffix \notin SHEBANGS_keys
    /\ Exit(0)
    /\ UNCHANGED <<fs, fs0, rwDirs, filepath, custom_name, all, temp_file_path,
                   file_status, file_text, new_lines, final_file_path, trail, u, tasks, data_file>>

\* final_file_path, lines 171-175
FinalFilePath(temp, custom) ==
    build_final_path(<<SCRIPTS_DIR, NewFileName(Name(temp))>>, custom)

\* run_operations, lines 171-176: shutil.copy is not guarded
CopyToFinal ==
    /\ pc = "copy"
    /\ LET p == Str(temp_file_path)
           f == FinalFilePath(p, custom_name)
       IN  /\ final_file_path' = f
           /\ IF CopyRaises(fs, p, f)
              THEN Uncaught /\ fs' = fs
              ELSE /\ fs' = ShutilCopy(fs, p, f)
                   /\ pc' = "write_text" /\ exitCode' = exitCode
    /\ trail' = Append(trail, IF pc' = "exited" THEN "copy_raised" ELSE "copy")
    /\ UNCHANGED <<fs0, rwDirs, filepath, custom_name, all, temp_file_path,
                   file_status, file_text, new_lines, u, tasks, data_file>>

\* run_operations, lines 178-179: write_text raises on a file the user
\* may not write
WriteNewLines ==
    /\ pc = "write_text"
    /\ IF new_lines # <<>>
       THEN IF ~CanWrite(fs[final_file_path], Caller)
            THEN /\ Uncaught
                 /\ trail' = Append(trail, "write_raised")
                 /\ fs' = fs
            ELSE /\ fs' = WriteText(fs, final_file_path, Join(new_lines))
                 /\ trail' = Append(trail, "write")
                 /\ pc' = "remove" /\ exitCode' = exitCode
       ELSE /\ pc' = "remove"
            /\ UNCHANGED <<fs, exitCode, trail>>
    /\ UNCHANGED <<fs0, rwDirs, filepath, custom_name, all, temp_file_path,
                   file_status, file_text, new_lines, final_file_path, u, tasks, data_file>>

\* run_operations, lines 180-181
RemoveTemp ==
    /\ pc = "remove"
    /\ fs' = Remove(fs, Str(temp_file_path))
    /\ Exit(0)
    /\ trail' = Append(trail, "remove")
    /\ UNCHANGED <<fs0, rwDirs, filepath, custom_name, all, temp_file_path,
                   file_status, file_text, new_lines, final_file_path, u, tasks, data_file>>

Next ==
    \/ Main
    \/ MakeTempFile
    \/ GetFileStatus
    \/ MakeExecutable
    \/ AddShebang
    \/ RemoveSuffix
    \/ Unsupported
    \/ CopyToFinal
    \/ WriteNewLines
    \/ RemoveTemp

Spec == Init /\ [][Next]_vars

-----------------------------------------------------------------------------
(* What the claims speak of *)

Has(step) == \E i \in 1..Len(trail) : trail[i] = step

SrcName == Name(filepath)
SrcPresent == filepath \in DOMAIN fs0
SrcSupported == Suffix(SrcName) \in SHEBANGS_keys

\* the staged copy under its first name and under its name without suffix
StagedPath == <<Dir(filepath), TempName(SrcName)>>
StrippedStagedPath == <<Dir(filepath), StrippedName(TempName(SrcName))>>

\* the run went through the whole pipeline and ended with sys.exit(0)
Succeeded == pc = "exited" /\ exitCode = 0 /\ Has("remove")

\* the directive of the source file's own suffix, as a line
OwnDirective == SHEBANGS[Suffix(SrcName)]

-----------------------------------------------------------------------------
(* C1 *)

\* C1: in every state of every run on an existing source file, whatever the
\* custom name and the prior contents of the directories, the original file
\* is still at its path with the bytes and the permission bits it had when
\* the run started.
C1_OriginalUntouched ==
    SrcPresent => (filepath \in DOMAIN fs /\ fs[filepath] = fs0[filepath])

-----------------------------------------------------------------------------
(* C2 *)

\* C2: after a successful run on a file with a supported suffix S the
\* destination exists, is executable, starts with S's directive, and its text
\* is the source text when that started with S's directive and otherwise the
\* directive line, a blank line and the source text; the exit code is 0.
C2_SuccessfulInstall ==
    Succeeded =>
        /\ final_file_path \in DOMAIN fs
        /\ AccessX(fs[final_file_path], Caller)
        /\ Split(fs[final_file_path].text)[1] = OwnDirective
        /\ fs[final_file_path].text =
              IF Split(fs0[filepath].text)[1] = OwnDirective
              THEN fs0[filepath].text
              ELSE OwnDirective \o <<NL, NL>> \o fs0[filepath].text
        /\ exitCode = 0

-----------------------------------------------------------------------------
(* C3 *)

\* C3: on an existing input file whose suffix is no key of SHEBANGS the
\* process changes nothing in the file system (so it creates no file in the
\* installation directory and leaves the original as it was), takes no step
\* of the pipeline, and exits with code 1.
C3_UnsupportedRejected ==
    (SrcPresent /\ ~SrcSupported) =>
        /\ fs = fs0
        /\ trail = <<>>
        /\ pc \in {"main", "exited"}
        /\ (pc = "exited" => exitCode = 1)

\* a.txt that starts with a directive and is executable was rejected
C3_Witness ==
    /\ pc = "exited"
    /\ exitCode = 1
    /\ all
    /\ SrcName = <<"a", DOT, "txt">>
    /\ SrcPresent
    /\ Split(fs0[filepath].text)[1] = <<PY>>
    /\ "ux" \in fs0[filepath].mode

-----------------------------------------------------------------------------
(* C4 *)

\* C4: the destination of a committed file is the installation directory
\* joined with the custom name when one is supplied, and otherwise joined
\* with the original file name minus its suffix.
C4_DestinationPath ==
    Has("copy") =>
        final_file_path =
            IF custom_name # <<>> THEN <<SCRIPTS_DIR, custom_name>>
            ELSE <<SCRIPTS_DIR, WithoutSuffix(SrcName)>>

-----------------------------------------------------------------------------
(* C5 *)

\* C5: when staging fails the process exits with code 1 and no step of the
\* pipeline follows the failed staging step.
C5_StagingFailureAborts ==
    Has("stage_failed") =>
        /\ trail = <<"stage_failed">>
        /\ (pc = "exited" => exitCode = 1)

-----------------------------------------------------------------------------
(* C6 *)

\* C6: the process exits with code 1 when the input file is missing, when
\* its suffix is unsupported, when staging failed, and when add_shebang was
\* called with a suffix that is no key of SHEBANGS.
C6_ExitCodes ==
    pc = "exited" =>
        /\ ~SrcPresent => exitCode = 1
        /\ (SrcPresent /\ ~SrcSupported) => exitCode = 1
        /\ Has("stage_failed") => exitCode = 1
        /\ Has("shebang_raised") => exitCode = 1

-----------------------------------------------------------------------------
(* C7 *)

\* the destination file has been committed
Committed == Has("copy")

\* C7 as claimed: a committed destination's name ends in a recognized suffix
\* only if the custom name ends in that suffix.
C7_NoRecognizedSuffix ==
    (Committed /\ Suffix(Name(final_file_path)) \in SHEBANGS_keys) =>
        (custom_name # <<>> /\ Suffix(custom_name) = Suffix(Name(final_file_path)))

\* C7 as amended: exactly one suffix is stripped, so a committed destination's
\* name ends in a recognized suffix only if the custom name ends in that
\* suffix, or no custom name was given and the source name minus its last
\* suffix still ends in that suffix (a.sh.py is committed as a.sh).
C7_OneSuffixStripped ==
    (Committed /\ Suffix(Name(final_file_path)) \in SHEBANGS_keys) =>
        \/ (custom_name # <<>> /\ Suffix(custom_name) = Suffix(Name(final_file_path)))
        \/ (custom_name = <<>>
            /\ Suffix(WithoutSuffix(SrcName)) = Suffix(Name(final_file_path)))

\* a.py was committed without a custom name, under a name with no suffix
C7_Witness ==
    /\ Committed
    /\ custom_name = <<>>
    /\ SrcName = <<"a", DOT, "py">>
    /\ final_file_path \in DOMAIN fs
    /\ Suffix(Name(final_file_path)) = <<>>

-----------------------------------------------------------------------------
(* C8 *)

\* the commit step is the copy to the destination and, when there are new
\* lines, the write of them
CommitDone == Has("copy") /\ ~Has("write_raised") /\ pc \in {"remove", "exited"}

-----------------------------------------------------------------------------
(* Unit runs of add_shebang and make_executable *)

\* no pipeline runs during a unit run
NoPipeline ==
    /\ fs = [p \in {} |-> Junk]
    /\ fs0 = fs
    /\ rwDirs = Dirs
    /\ filepath = <<Cwd, <<>>>>
    /\ custom_name = <<>>
    /\ all = FALSE
    /\ pc = "unit"
    /\ exitCode = NoExit
    /\ temp_file_path = NoPath
    /\ file_status = NoStatus
    /\ file_text = <<>>
    /\ new_lines = <<>>
    /\ final_file_path = <<Cwd, <<>>>>
    /\ trail = <<>>

\* the texts of at most n characters
Texts(n) == UNION { [1..k -> Chars] : k \in 0..n }

\* add_shebang is called on a text, then on its own result joined again
InitAddShebang ==
    /\ NoPipeline
    /\ NoTasks
    /\ \E t \in Texts(MaxLen), sfx \in SHEBANGS_keys :
          u = [kind |-> "add_shebang", text |-> t, suffix |-> sfx, outs |-> <<>>]

CallAddShebang ==
    /\ u.kind = "add_shebang"
    /\ Len(u.outs) < 2
    /\ LET arg == IF u.outs = <<>> THEN u.text ELSE Join(u.outs[Len(u.outs)])
       IN  u' = [u EXCEPT !.outs = Append(@, add_shebang(arg, u.suffix))]
    /\ UNCHANGED <<pipeVars, tskVars>>

SpecAddShebang == InitAddShebang /\ [][CallAddShebang]_vars

\* the one file of a make_executable unit run
UnitPath == <<Cwd, <<"a", DOT, "py">>>>

\* make_executable is called twice in a row on one file; modes are the
\* file's permission bits before the first call and after each call
InitMakeExecutable ==
    /\ NoPipeline
    /\ NoTasks
    /\ \E m \in SUBSET Bits, who \in Callers, t \in Texts(1) :
          u = [kind |-> "make_executable", who |-> who,
               fs |-> (UnitPath :> [text |-> t, mode |-> m]),
               modes |-> <<m>>, rets |-> <<>>]

CallMakeExecutable ==
    /\ u.kind = "make_executable"
    /\ Len(u.rets) < 2
    /\ LET r == make_executable(u.fs, UnitPath, u.who)
       IN  u' = [u EXCEPT !.fs = r.fs,
                          !.modes = Append(@, r.fs[UnitPath].mode),
                          !.rets = Append(@, r.ret)]
    /\ UNCHANGED <<pipeVars, tskVars>>

SpecMakeExecutable == InitMakeExecutable /\ [][CallMakeExecutable]_vars

-----------------------------------------------------------------------------
(* C9 *)

\* C9: for every supported suffix and every text, the result of add_shebang,
\* joined, is the text itself when the text's first line is the suffix's
\* directive, and otherwise the directive line, an empty line and the text
\* (so every original line follows in its place, unchanged); and add_shebang
\* applied to its own result returns that result.
C9_AddShebangIdempotent ==
    (u.kind = "add_shebang" /\ Len(u.outs) >= 1) =>
        LET dir == SHEBANGS[u.suffix]
            lines == Split(u.text)
            out == u.outs[1]
        IN  /\ IF lines[1] = dir
               THEN Join(out) = u.text /\ Len(out) = Len(lines)
               ELSE /\ Join(out) = dir \o <<NL, NL>> \o u.text
                    /\ Len(out) = Len(lines) + 2
                    /\ out[1] = dir /\ out[2] = <<>>
                    /\ \A i \in 1..Len(lines) : out[i + 2] = lines[i]
            /\ Len(u.outs) = 2 => u.outs[2] = out

\* add_shebang put the directive before a text of two lines without one,
\* and was applied again to the result
C9_Witness ==
    /\ u.kind = "add_shebang"
    /\ Len(u.outs) = 2
    /\ u.text = <<"x", NL, SH>>
    /\ u.suffix = DotSh
    /\ u.outs[1] = << <<SH>>, <<>>, <<"x">>, <<SH>> >>

-----------------------------------------------------------------------------
(* C10 *)

\* C10: a call of make_executable on an existing file clears no permission
\* bit and sets at most the owner's execute bit, and a second call in a row
\* leaves the permission bits as the first call left them.
C10_MakeExecutableIdempotent ==
    u.kind = "make_executable" =>
        /\ \A i \in 1..(Len(u.modes) - 1) :
              /\ u.modes[i] \subseteq u.modes[i + 1]
              /\ u.modes[i + 1] \ u.modes[i] \subseteq {"ux"}
        /\ Len(u.modes) = 3 => u.modes[3] = u.modes[2]

\* the owner's file had a read, a write and the group's execute bit; the
\* first call added the owner's execute bit and the second changed nothing
C10_Witness ==
    /\ u.kind = "make_executable"
    /\ u.who = "owner"
    /\ u.modes = << {"ur", "uw", "gx"}, {"ur", "uw", "gx", "ux"}, {"ur", "uw", "gx", "ux"} >>
    /\ u.rets = <<0, 1>>

-----------------------------------------------------------------------------
(* C11 *)

\* C11: once get_file_status has inspected the staged copy, shebang is true
\* exactly when the first line of the file is the directive of the file's own
\* suffix; so a file whose first line is another suffix's directive is
\* reported without shebang, and past the directive step of the pipeline the
\* new lines start with the directive of the file's own suffix.
C11_OwnDirectiveOnly ==
    (Has("stage") /\ Has("inspect")) =>
        /\ file_status.shebang =
              (Split(file_text)[1] = SHEBANGS[file_status.suffix])
        /\ (pc \in {"branch", "copy", "write_text", "remove"}
            /\ Split(file_text)[1] # SHEBANGS[file_status.suffix]) =>
              (new_lines # <<>> /\ new_lines[1] = SHEBANGS[file_status.suffix])

-----------------------------------------------------------------------------
(* C12 *)

\* the place of the first step named `step` in the trail, 0 when it has none
FirstAt(step) ==
    IF Has(step) THEN CHOOSE i \in 1..Len(trail) :
                          trail[i] = step /\ \A j \in 1..(i - 1) : trail[j] # step
    ELSE 0

\* the run has written the destination
DestinationWritten == Has("copy")

\* the permission and the directive steps come before the copy to the
\* destination, and the new lines do not change once it is written
DecidedBeforeCopy ==
    (Has("copy") \/ Has("copy_raised")) =>
        /\ Has("inspect")
        /\ \A i \in 1..Len(trail) :
              trail[i] \in {"inspect", "chmod", "shebang"} =>
                  i < FirstAt("copy") + FirstAt("copy_raised")
        /\ (~file_status.exec => Has("chmod"))
        /\ (~file_status.shebang => Has("shebang"))
        /\ new_lines = IF file_status.shebang THEN <<>>
                       ELSE add_shebang(file_text, file_status.suffix)

\* C12 as claimed: the permission and directive decisions precede the first
\* write of the destination, and in no state does the destination, written
\* by the run, hold a text other than the one the run is going to give it.
C12_OneWrite ==
    /\ DecidedBeforeCopy
    /\ (DestinationWritten /\ new_lines # <<>>) =>
          fs[final_file_path].text = Join(new_lines)

\* C12 as amended: the permission and directive decisions precede the first
\* write of the destination, but the destination is written twice when a
\* directive is to be added: shutil.copy gives it the staged text without
\* the directive and write_text then replaces that text.  Between the two
\* writes the destination holds the staged text, for good when write_text
\* raises; once write_text has returned it holds the new lines.
C12_CopyThenWrite ==
    /\ DecidedBeforeCopy
    /\ (DestinationWritten /\ new_lines # <<>>) =>
          IF pc = "write_text" \/ Has("write_raised")
          THEN /\ fs[final_file_path].text = file_text
               /\ Split(fs[final_file_path].text)[1] # new_lines[1]
          ELSE /\ Has("write")
               /\ fs[final_file_path].text = Join(new_lines)

\* between the copy and the write: the destination of a.py is there, is
\* executable, and does not start with the directive the run adds next
C12_Witness ==
    /\ pc = "write_text"
    /\ SrcName = <<"a", DOT, "py">>
    /\ new_lines # <<>>
    /\ new_lines[1] = <<PY>>
    /\ final_file_path \in DOMAIN fs
    /\ AccessX(fs[final_file_path], Caller)
    /\ fs[final_file_path].text = <<NL, "x">>

-----------------------------------------------------------------------------
(* tsk.py: one TaskManager and its data file *)

\* the most tasks the list holds
MaxTasks == 3

Titles == {"t"}

\* the priorities add_task is called with; 0 is one it refuses
Priorities == 0..3

\* the ids del_task is called with
TaskIds == 1..(MaxTasks + 1)

\* save_tasks: the list is pickled to the data file
save_tasks(list) == [exists |-> TRUE, tasks |-> list]

\* load_tasks: the pickled list, or [] when there is no data file
load_tasks(file) == IF file.exists THEN file.tasks ELSE <<>>

\* the id add_task gives a new task
NewId(list) == Len(list) + 1

\* the place of the first task with the id, 0 when there is none
RECURSIVE FindTask(_, _, _)
FindTask(list, task_id, i) ==
    IF i > Len(list) THEN 0
    ELSE IF list[i].id = task_id THEN i
    ELSE FindTask(list, task_id, i + 1)

\* list.pop(i), 1-based
Pop(list, i) == SubSeq(list, 1, i - 1) \o SubSeq(list, i + 1, Len(list))

\* TaskManager(): the list starts empty, with no data file or with the
\* empty one that init wrote in an earlier run
InitTsk ==
    /\ NoPipeline
    /\ u = NoUnit
    /\ data_file \in {NoDataFile, save_tasks(<<>>)}
    /\ tasks = load_tasks(data_file)

\* TaskManager.init
TskInit ==
    /\ data_file' = IF ~data_file.exists THEN save_tasks(<<>>) ELSE data_file
    /\ UNCHANGED <<tasks, pipeVars, u>>

\* TaskManager.add_task: a priority outside (1, 2, 3) raises ValueError
TskAddTask ==
    /\ Len(tasks) < MaxTasks
    /\ \E title \in Titles, priority \in Priorities :
          IF priority \notin {1, 2, 3}
          THEN UNCHANGED <<tasks, data_file>>
          ELSE /\ tasks' = Append(tasks, [id |-> NewId(tasks), title |-> title,
                                          priority |-> priority])
               /\ data_file' = save_tasks(tasks')
    /\ UNCHANGED <<pipeVars, u>>

\* TaskManager.del_task
TskDelTask ==
    /\ \E task_id \in TaskIds :
          LET i == FindTask(tasks, task_id, 1)
          IN  IF i = 0
              THEN UNCHANGED <<tasks, data_file>>
              ELSE /\ tasks' = Pop(tasks, i)
                   /\ data_file' = save_tasks(tasks')
    /\ UNCHANGED <<pipeVars, u>>

\* TaskManager.clear_tasks
TskClearTasks ==
    /\ tasks' = <<>>
    /\ data_file' = save_tasks(tasks')
    /\ UNCHANGED <<pipeVars, u>>

NextTsk ==
    \/ TskInit
    \/ TskAddTask
    \/ TskDelTask
    \/ TskClearTasks

SpecTsk == InitTsk /\ [][NextTsk]_vars

-----------------------------------------------------------------------------
(* C13 *)

\* C13: after any sequence of add_task, del_task and clear_tasks on one
\* TaskManager that started with the empty list, no two tasks of the list
\* have the same id.
C13_UniqueIds ==
    \A i, j \in 1..Len(tasks) : i # j => tasks[i].id # tasks[j].id

====
